---------------------------- MODULE Spec2Model ----------------------------
(***************************************************************************)
(* Legal-Document-Analyzer: the in-memory store (storage.ts), the document *)
(* analyzer (analyzeDocument, extractTextFromDocument,                     *)
(* simulateLegalAnalysis) and the three document routes.                   *)
(*                                                                         *)
(* JavaScript strings that the code inspects character by character are    *)
(* tuples of one-character strings; strings that are only stored and       *)
(* compared are TLA+ strings.  A nullable value is Null or Some(v).        *)
(***************************************************************************)
EXTENDS Integers, Sequences, FiniteSets, TLC

Null == <<>>
Some(v) == <<v>>
IsNull(o) == o = <<>>
Val(o) == o[1]

(***************************************************************************)
(* String primitives.                                                      *)
(***************************************************************************)
UpperCase == <<"A","B","C","D","E","F","G","H","I","J","K","L","M","N","O","P","Q","R","S","T","U","V","W","X","Y","Z">>
LowerCase == <<"a","b","c","d","e","f","g","h","i","j","k","l","m","n","o","p","q","r","s","t","u","v","w","x","y","z">>

\* the lower-case letter of every upper-case letter
LowerOf == [c \in {UpperCase[i] : i \in 1..Len(UpperCase)} |->
              LowerCase[CHOOSE i \in 1..Len(UpperCase) : UpperCase[i] = c]]

LowerChar(c) == IF c \in DOMAIN LowerOf THEN LowerOf[c] ELSE c

\* String.prototype.toLowerCase
toLowerCase(s) == [i \in 1..Len(s) |-> LowerChar(s[i])]

\* s has the characters of k starting at position i
HasAt(s, i, k) ==
  /\ i >= 1
  /\ i + Len(k) - 1 <= Len(s)
  /\ \A j \in 1..Len(k) : s[i + j - 1] = k[j]

\* String.prototype.includes
includes(s, k) == \E i \in 1..(Len(s) - Len(k) + 1) : HasAt(s, i, k)

\* the characters \s matches, among those of the alphabet used here
WhiteSpace == {" ", "\n", "\t", "\r"}

AllWhiteSpace(s, from, to) == \A j \in from..to : s[j] \in WhiteSpace

\* textLower.match(/deed\s+of\s+sale/i)
matchDeedOfSale(s) ==
  \E i \in 1..Len(s) :
    /\ HasAt(s, i, <<"d","e","e","d">>)
    /\ \E j \in (i + 5)..Len(s) :
         /\ AllWhiteSpace(s, i + 4, j - 1)
         /\ HasAt(s, j, <<"o","f">>)
         /\ \E k \in (j + 3)..Len(s) :
              /\ AllWhiteSpace(s, j + 2, k - 1)
              /\ HasAt(s, k, <<"s","a","l","e">>)

(***************************************************************************)
(* simulateLegalAnalysis                                                   *)
(***************************************************************************)
Unknown == <<"U","n","k","n","o","w","n">>
Agreement == <<"A","g","r","e","e","m","e","n","t">>
Deed == <<"D","e","e","d">>
Invoice == <<"I","n","v","o","i","c","e">>
BondPaper == <<"B","o","n","d"," ","P","a","p","e","r">>
PropertyDocument == <<"P","r","o","p","e","r","t","y"," ","D","o","c","u","m","e","n","t">>
SaleDeed == <<"S","a","l","e"," ","D","e","e","d">>

\* the list the classifier declares and never reads
documentTypes ==
  <<Agreement, Deed, Invoice, BondPaper, PropertyDocument, SaleDeed, Unknown>>

\* documentType || 'Unknown': null and the empty string are both falsy
InitialType(documentType) ==
  IF IsNull(documentType) \/ Val(documentType) = <<>>
    THEN Unknown
    ELSE Val(documentType)

BondRule(textLower, docTypeLower) ==
  \/ includes(textLower, <<"b","o","n","d">>)
  \/ includes(textLower, <<"s","t","a","m","p"," ","p","a","p","e","r">>)
  \/ includes(docTypeLower, <<"b","o","n","d">>)

\* a sale-deed rule that does not test the declared type for "deed"
SaleDeedRuleNoDeed(textLower, docTypeLower) ==
  \/ includes(textLower, <<"s","a","l","e"," ","d","e","e","d">>)
  \/ includes(textLower, <<"s","a","l","e","-","d","e","e","d">>)
  \/ includes(textLower, <<"s","a","l","e"," ","a","g","r","e","e","m","e","n","t">>)
  \/ matchDeedOfSale(textLower)
  \/ includes(docTypeLower, <<"s","a","l","e">>)

SaleDeedRule(textLower, docTypeLower) ==
  \/ includes(textLower, <<"s","a","l","e"," ","d","e","e","d">>)
  \/ includes(textLower, <<"s","a","l","e","-","d","e","e","d">>)
  \/ includes(textLower, <<"s","a","l","e"," ","a","g","r","e","e","m","e","n","t">>)
  \/ matchDeedOfSale(textLower)
  \/ includes(docTypeLower, <<"s","a","l","e">>)
  \/ includes(docTypeLower, <<"d","e","e","d">>)

PropertyRule(textLower, docTypeLower) ==
  \/ includes(textLower, <<"p","r","o","p","e","r","t","y">>)
  \/ includes(textLower, <<"r","e","a","l"," ","e","s","t","a","t","e">>)
  \/ includes(textLower, <<"l","a","n","d">>)
  \/ includes(textLower, <<"a","p","a","r","t","m","e","n","t">>)
  \/ includes(textLower, <<"h","o","u","s","e">>)
  \/ includes(textLower, <<"f","l","a","t">>)
  \/ includes(textLower, <<"c","o","n","v","e","y","a","n","c","e">>)
  \/ includes(textLower, <<"t","i","t","l","e">>)
  \/ includes(textLower, <<"t","r","a","n","s","f","e","r">>)
  \/ includes(docTypeLower, <<"p","r","o","p","e","r","t","y">>)

\* a first-match-wins resolution: the first rule that matches decides
ResolveFirstMatch(initial, bond, sale, property) ==
  IF bond THEN BondPaper
  ELSE IF sale THEN SaleDeed
  ELSE IF property THEN PropertyDocument
  ELSE initial

\* the three if statements in their order: each one that matches overwrites
ResolveType(initial, bond, sale, property) ==
  LET t1 == IF bond THEN BondPaper ELSE initial
      t2 == IF sale THEN SaleDeed ELSE t1
      t3 == IF property THEN PropertyDocument ELSE t2
  IN  t3

\* validity that also asks for a label of the declared list
IsValidListed(actualType) ==
  /\ actualType # Unknown
  /\ \E i \in 1..Len(documentTypes) : documentTypes[i] = actualType

IsValidType(actualType) == actualType # Unknown

ComplianceStatusOf(isValid) == IF isValid THEN "compliant" ELSE "non-compliant"

\* the per-label branches: issues, warnings, recommendations
LabelContent(actualType) ==
  IF actualType = Agreement THEN
    [issues |-> <<>>,
     warnings |-> <<"Recommended: Add explicit clause for maintenance responsibilities">>,
     recommendations |->
       <<"Specific clause regarding security deposit return timeline",
         "Clear definition of 'normal wear and tear'",
         "Updated reference to recent Supreme Court judgment on rental caps">>]
  ELSE IF actualType = Deed THEN
    [issues |-> <<>>,
     warnings |-> <<"Consider adding more specific property demarcation details">>,
     recommendations |->
       <<"Include latest amendments to the Registration Act, 1908",
         "Add clause related to digital signature validity",
         "Reference the most recent stamp duty regulations">>]
  ELSE IF actualType = Invoice THEN
    [issues |-> <<>>,
     warnings |-> <<"GST details should be more prominently displayed">>,
     recommendations |->
       <<"Include HSN/SAC codes for all items",
         "Add payment terms with reference to Late Payment Act",
         "Include cancellation and refund policy">>]
  ELSE IF actualType = BondPaper THEN
    [issues |-> <<>>,
     warnings |-> <<"Verify stamp paper value matches transaction amount requirements">>,
     recommendations |->
       <<"Include notarization details with registration number",
         "Add proper witness attestation with ID details",
         "Verify with the Indian Stamp Act for the appropriate stamp duty value",
         "Include e-stamping certificate details if using e-stamped paper">>]
  ELSE IF actualType = SaleDeed THEN
    [issues |-> <<>>,
     warnings |-> <<"Ensure property boundaries match those in land records">>,
     recommendations |->
       <<"Verify that stamp duty paid corresponds to current market value",
         "Include complete chain of title documents as annexures",
         "Ensure property tax receipts are attached and up to date",
         "Include all required witness signatures with their verified ID details",
         "Register with Sub-Registrar Office within the statutory time limit">>]
  ELSE IF actualType = PropertyDocument THEN
    [issues |-> <<>>,
     warnings |-> <<"Property boundaries should be clearly defined with survey numbers">>,
     recommendations |->
       <<"Include verification of property title from local authorities",
         "Ensure all co-owners have signed with proper ID verification",
         "Reference latest RERA regulations if applicable",
         "Include clear encumbrance certificate details",
         "Verify property tax payment status and include documentation">>]
  ELSE
    [issues |-> <<"Document type cannot be determined", "Missing standard legal clauses">>,
     warnings |-> <<"Document may not be legally valid",
                    "Format does not match any standard template">>,
     recommendations |->
       <<"Use a standard legal template",
         "Consult with a legal professional",
         "Add proper identification and authentication elements">>]

\* scores are in hundredths (0.85 is 85)
simulateLegalAnalysis(text, documentType) ==
  LET initial == InitialType(documentType)
      textLower == toLowerCase(text)
      docTypeLower == toLowerCase(initial)
      actualType == ResolveType(initial,
                                BondRule(textLower, docTypeLower),
                                SaleDeedRule(textLower, docTypeLower),
                                PropertyRule(textLower, docTypeLower))
      isValid == IsValidType(actualType)
      content == LabelContent(actualType)
  IN  [isValid |-> isValid,
       complianceStatus |-> ComplianceStatusOf(isValid),
       issues |-> content.issues,
       warnings |-> content.warnings,
       recommendations |-> content.recommendations,
       documentType |-> actualType,
       legalFrameworks |->
         <<"Registration Act, 1908", "Indian Stamp Act",
           "Transfer of Property Act, 1882", "Indian Contract Act, 1872">>,
       analysisDetails |->
         [languageValidity |-> TRUE,
          clauseCompletenessScore |-> IF isValid THEN 85 ELSE 45,
          legalTerminologyAccuracy |-> IF isValid THEN 90 ELSE 60]]

(***************************************************************************)
(* The assembly steps of analyzeDocument (complianceDetails and the        *)
(* property-specific additions).                                           *)
(***************************************************************************)
ValidDetails ==
  [validityPeriod |-> "5 years from date of execution",
   registrationRequired |-> TRUE,
   stampDutyPaid |-> TRUE,
   properWitnessAttestation |-> TRUE,
   notarizationStatus |-> "Complete",
   governmentDepartmentApproval |-> "Verified",
   standardsCompliance |->
     <<"Ministry of Law and Justice - Document Standards 2021",
       "Digital India Initiative - E-Document Guidelines",
       "Indian Registration Act Requirements">>]

InvalidDetails ==
  [missingElements |->
     <<"Proper digital signatures", "Mandatory disclosure clauses",
       "Required government stamps", "Authentication watermarks">>,
   nonComplianceRisks |->
     <<"Document may not be legally enforceable",
       "Could be rejected by government authorities",
       "May face challenges in court proceedings",
       "Potential penalties for non-compliance">>]

PropertyFields ==
  [reraCompliance |-> "Verified",
   boundaryVerification |-> "Completed",
   encumbranceStatus |-> "Clear"]

\* an assembly that attaches the valid block whatever the validity
AlwaysValidDetails(isValid) == ValidDetails

\* if (analysisResults.isValid) { complianceDetails = {...} } else { ... }
complianceDetailsOf(isValid) == IF isValid THEN ValidDetails ELSE InvalidDetails

assembleReport(analysisResults) ==
  LET details == complianceDetailsOf(analysisResults.isValid)
      isProperty == analysisResults.documentType = PropertyDocument
      frameworks ==
        IF isProperty
          THEN analysisResults.legalFrameworks
                 \o <<"Real Estate (Regulation and Development) Act, 2016",
                      "Indian Registration Act, 1908 (property specific sections)">>
          ELSE analysisResults.legalFrameworks
      details2 ==
        IF ~isProperty THEN details
        ELSE IF analysisResults.isValid
          THEN details @@ PropertyFields
          ELSE [details EXCEPT
                  !.missingElements = Append(@, "RERA registration details"),
                  !.nonComplianceRisks = Append(@, "Potential boundary disputes")]
  IN  [isValid |-> analysisResults.isValid,
       complianceStatus |-> analysisResults.complianceStatus,
       issues |-> analysisResults.issues,
       warnings |-> analysisResults.warnings,
       recommendations |-> analysisResults.recommendations,
       documentType |-> analysisResults.documentType,
       legalFrameworks |-> frameworks,
       analysisDetails |-> analysisResults.analysisDetails,
       complianceDetails |-> details2]

\* extractTextFromDocument: the template over fileName and documentType
extractTextFromDocument(fileName, documentType) ==
  LET shown == IF IsNull(documentType) THEN <<"n","u","l","l">> ELSE Val(documentType)
      lowered == IF IsNull(documentType) \/ Val(documentType) = <<>>
                   THEN <<"d","o","c","u","m","e","n","t">>
                   ELSE toLowerCase(Val(documentType))
  IN  <<"S","a","m","p","l","e"," ","t","e","x","t"," ","f","o","r"," ","d","o","c","u","m","e","n","t"," ">> \o fileName \o <<" ","o","f"," ","t","y","p","e"," ">> \o shown
        \o <<"."," ","\n","T","h","i","s"," ","d","o","c","u","m","e","n","t"," ","a","p","p","e","a","r","s"," ","t","o"," ","b","e"," ","a"," ","l","e","g","a","l"," ">> \o lowered
        \o <<" ","\n","u","n","d","e","r"," ","I","n","d","i","a","n"," ","l","a","w"," ","w","i","t","h"," ","s","o","m","e"," ","s","t","a","n","d","a","r","d"," ","c","l","a","u","s","e","s"," ","a","n","d"," ","p","r","o","v","i","s","i","o","n","s",".">>

(***************************************************************************)
(* storage.ts: MemStorage.  A Map is the sequence of its <<key, value>>    *)
(* entries in insertion order.                                             *)
(***************************************************************************)
MapHas(m, k) == \E i \in 1..Len(m) : m[i][1] = k

MapGet(m, k) ==
  IF MapHas(m, k)
    THEN Some(m[CHOOSE i \in 1..Len(m) : m[i][1] = k][2])
    ELSE Null

MapSet(m, k, v) ==
  IF MapHas(m, k)
    THEN [i \in 1..Len(m) |-> IF m[i][1] = k THEN <<k, v>> ELSE m[i]]
    ELSE Append(m, <<k, v>>)

MapValues(m) == [i \in 1..Len(m) |-> m[i][2]]

\* a document counter that is read and not incremented
SameDocumentId(id) == id

\* this.currentDocumentId++
NextDocumentId(id) == id + 1

\* an analysis counter that is read and not incremented
SameAnalysisId(id) == id

\* this.currentAnalysisId++
NextAnalysisId(id) == id + 1

\* createDocument: the record stored under id
NewDocument(insertDocument, id, now) ==
  [id |-> id,
   userId |-> insertDocument.userId,
   fileName |-> insertDocument.fileName,
   fileType |-> insertDocument.fileType,
   fileSize |-> insertDocument.fileSize,
   documentType |-> insertDocument.documentType,
   status |-> "pending",
   uploadedAt |-> now,
   content |-> <<>>]

\* createAnalysis: the record stored under id
NewAnalysis(insertAnalysis, id, now) ==
  [id |-> id,
   documentId |-> insertAnalysis.documentId,
   isValid |-> insertAnalysis.isValid,
   complianceStatus |-> insertAnalysis.complianceStatus,
   issuesCount |-> insertAnalysis.issuesCount,
   warnings |-> insertAnalysis.warnings,
   recommendations |-> insertAnalysis.recommendations,
   analysisData |-> insertAnalysis.analysisData,
   createdAt |-> now]

getDocument(docs, id) == MapGet(docs, id)

RECURSIVE InsertByUploadedAt(_, _)
\* where the stable descending sort puts d among the already sorted docs
InsertByUploadedAt(sorted, d) ==
  IF sorted = <<>> THEN <<d>>
  ELSE IF Head(sorted).uploadedAt >= d.uploadedAt
    THEN <<Head(sorted)>> \o InsertByUploadedAt(Tail(sorted), d)
    ELSE <<d>> \o sorted

RECURSIVE SortByUploadedAtDesc(_)
SortByUploadedAtDesc(docs) ==
  IF docs = <<>> THEN <<>>
  ELSE InsertByUploadedAt(SortByUploadedAtDesc(SubSeq(docs, 1, Len(docs) - 1)),
                          docs[Len(docs)])

getDocumentsByUserId(docs, userId) ==
  SortByUploadedAtDesc(SelectSeq(MapValues(docs), LAMBDA d : d.userId = userId))

\* Array.from(values()).find: the first analysis of the document
getAnalysisByDocumentId(ans, documentId) ==
  LET hits == SelectSeq(MapValues(ans), LAMBDA a : a.documentId = documentId)
  IN  IF hits = <<>> THEN Null ELSE Some(hits[1])

\* updateDocumentStatus after its await: the write of {...document, status}
WithStatus(docs, id, document, status) ==
  IF IsNull(document) THEN docs
  ELSE MapSet(docs, id, [Val(document) EXCEPT !.status = status])

\* updateDocumentContent after its await: the write of {...document, content}
WithContent(docs, id, document, content) ==
  IF IsNull(document) THEN docs
  ELSE MapSet(docs, id, [Val(document) EXCEPT !.content = content])

(***************************************************************************)
(* Buffer.toString('base64')                                               *)
(***************************************************************************)
Base64Alphabet ==
  <<"A","B","C","D","E","F","G","H","I","J","K","L","M","N","O","P","Q","R","S","T","U","V","W","X","Y","Z","a","b","c","d","e","f","g","h","i","j","k","l","m","n","o","p","q","r","s","t","u","v","w","x","y","z","0","1","2","3","4","5","6","7","8","9","+","/">>

B64(n) == Base64Alphabet[n + 1]

RECURSIVE toBase64(_)
toBase64(bytes) ==
  IF Len(bytes) = 0 THEN <<>>
  ELSE IF Len(bytes) = 1 THEN
    <<B64(bytes[1] \div 4), B64((bytes[1] % 4) * 16), "=", "=">>
  ELSE IF Len(bytes) = 2 THEN
    <<B64(bytes[1] \div 4),
      B64((bytes[1] % 4) * 16 + bytes[2] \div 16),
      B64((bytes[2] % 16) * 4), "=">>
  ELSE
    <<B64(bytes[1] \div 4),
      B64((bytes[1] % 4) * 16 + bytes[2] \div 16),
      B64((bytes[2] % 16) * 4 + bytes[3] \div 64),
      B64(bytes[3] % 64)>>
      \o toBase64(SubSeq(bytes, 4, Len(bytes)))

(***************************************************************************)
(* analyzeDocument: the three records it hands to createAnalysis.          *)
(***************************************************************************)
\* JSON.stringify: the serialized text stands for the value it encodes
JSONstringify(v) == [json |-> v]

EmptyObject == [x \in {} |-> x]

initialAnalysis(documentId) ==
  [documentId |-> documentId,
   isValid |-> Null,
   complianceStatus |-> "processing",
   issuesCount |-> 0,
   warnings |-> <<>>,
   recommendations |-> <<>>,
   analysisData |-> JSONstringify(EmptyObject)]

updatedAnalysis(documentId, analysisResults) ==
  [documentId |-> documentId,
   isValid |-> Some(analysisResults.isValid),
   complianceStatus |-> analysisResults.complianceStatus,
   issuesCount |-> Len(analysisResults.issues),
   warnings |-> analysisResults.warnings,
   recommendations |-> analysisResults.recommendations,
   analysisData |-> JSONstringify(analysisResults)]

errorAnalysis(documentId) ==
  [documentId |-> documentId,
   isValid |-> Some(FALSE),
   complianceStatus |-> "error",
   issuesCount |-> 1,
   warnings |-> <<"Analysis failed due to an error">>,
   recommendations |-> <<"Please try again or contact support">>,
   analysisData |-> JSONstringify([error |-> "Analysis failed"])]

\* a status that ignores the result
AlwaysValid(isValid) == "valid"

\* analysisResults.isValid ? "valid" : "invalid"
StatusOf(isValid) == IF isValid THEN "valid" ELSE "invalid"

(***************************************************************************)
(* The routes.                                                             *)
(***************************************************************************)
allowedFileTypes ==
  {"application/pdf",
   "application/vnd.openxmlformats-officedocument.wordprocessingml.document",
   "image/jpeg", "image/png"}

\* the upload route's inference of documentType from the file name
inferDocumentType(originalname) ==
  LET lower == toLowerCase(originalname)
  IN  IF includes(lower, <<"a","g","r","e","e","m","e","n","t">>) \/ includes(lower, <<"c","o","n","t","r","a","c","t">>)
        THEN Agreement
      ELSE IF includes(lower, <<"d","e","e","d">>) THEN Deed
      ELSE IF includes(lower, <<"i","n","v","o","i","c","e">>) THEN Invoice
      ELSE Unknown

\* the files a client may send
Files ==
  {[originalname |-> <<"l","e","a","s","e",".","p","d","f">>, mimetype |-> "application/pdf",
    buffer |-> <<77, 97, 110>>],
   [originalname |-> <<"L","a","n","d","l","o","r","d","_","D","e","e","d",".","d","o","c","x">>,
    mimetype |-> "application/vnd.openxmlformats-officedocument.wordprocessingml.document",
    buffer |-> <<77>>],
   [originalname |-> <<"n","o","t","e","s",".","t","x","t">>, mimetype |-> "text/plain",
    buffer |-> <<104, 105>>]}

\* the users that have a session
Users == {1, 2}

\* the sessions a request may carry: none, or one of a user
Sessions == {Null} \cup {Some(u) : u \in Users}

\* the sessions of the upload requests: the uploads are one user's
UploadSessions == {Null, Some(1)}

\* the milliseconds between two uploads: none (same timestamp) or one
Ticks == {0, 1}

\* concurrent requests
MaxReq == 2

Requests == 1..MaxReq

VARIABLES documents, analyses, currentDocumentId, currentAnalysisId, clock, tick,
          reqs

\* the input and the output of a classification taken on its own
VARIABLES cType, cText, cResult

cvars == <<cType, cText, cResult>>

svars == <<documents, analyses, currentDocumentId, currentAnalysisId, clock, tick,
           reqs>>

IdleRequest ==
  [kind |-> "none", pc |-> "idle", session |-> Null, file |-> Null, param |-> 0,
   document |-> Null, read |-> Null, results |-> Null,
   caught |-> FALSE, created |-> 0, wrote |-> Null, ret |-> Null, raised |-> FALSE,
   seen |-> {}, status |-> 0, body |-> Null]

SInit ==
  /\ documents = <<>>
  /\ analyses = <<>>
  /\ currentDocumentId = 1
  /\ currentAnalysisId = 1
  /\ clock = 0
  /\ tick \in Ticks
  /\ reqs = [r \in Requests |-> IdleRequest]

\* requests are numbered in the order they arrive
MayArrive(r) ==
  /\ reqs[r].pc = "idle"
  /\ IF r = 1 THEN TRUE ELSE reqs[r - 1].pc # "idle"

Respond(req, status, body) ==
  [req EXCEPT !.pc = "done", !.status = status, !.body = body]

\* the document ids whose analyzeDocument run has returned a report
FinishedRuns ==
  {Val(reqs[q].document).id :
     q \in {p \in Requests : reqs[p].pc = "done" /\ ~IsNull(reqs[p].ret)}}

(***************************************************************************)
(* POST /api/documents/upload                                              *)
(***************************************************************************)
\* multer's fileFilter, the two early returns, the type inference and
\* createDocument up to the handler's first await.  insertDocumentSchema.parse
\* accepts every documentData built here, and no buffer reaches the size limit.
UploadBegin(r) ==
  /\ MayArrive(r)
  /\ \E session \in UploadSessions, file \in {Null} \cup {Some(f) : f \in Files} :
       LET req == [reqs[r] EXCEPT !.kind = "upload", !.session = session,
                                  !.file = file]
       IN  IF ~IsNull(file) /\ Val(file).mimetype \notin allowedFileTypes THEN
             /\ reqs' = [reqs EXCEPT ![r] = Respond(req, 500, Null)]
             /\ UNCHANGED <<documents, currentDocumentId, clock>>
           ELSE IF IsNull(session) THEN
             /\ reqs' = [reqs EXCEPT ![r] = Respond(req, 401, Null)]
             /\ UNCHANGED <<documents, currentDocumentId, clock>>
           ELSE IF IsNull(file) THEN
             /\ reqs' = [reqs EXCEPT ![r] = Respond(req, 400, Null)]
             /\ UNCHANGED <<documents, currentDocumentId, clock>>
           ELSE
             LET f == Val(file)
                 documentData ==
                   [userId |-> Val(session),
                    fileName |-> f.originalname,
                    fileType |-> f.mimetype,
                    fileSize |-> Len(f.buffer),
                    documentType |-> Some(inferDocumentType(f.originalname))]
                 id == currentDocumentId
                 document == NewDocument(documentData, id, clock + tick)
             IN  /\ currentDocumentId' = NextDocumentId(id)
                 /\ clock' = clock + tick
                 /\ documents' = MapSet(documents, id, document)
                 /\ reqs' = [reqs EXCEPT ![r] =
                               [req EXCEPT !.pc = "created",
                                           !.document = Some(document)]]
  /\ UNCHANGED <<analyses, currentAnalysisId, tick, cvars>>

\* updateDocumentContent up to its await: getDocument
ContentRead(r) ==
  /\ reqs[r].pc = "created"
  /\ reqs' = [reqs EXCEPT ![r] =
                [@ EXCEPT !.pc = "contentRead",
                          !.read = getDocument(documents,
                                               Val(reqs[r].document).id)]]
  /\ UNCHANGED <<documents, analyses, currentDocumentId, currentAnalysisId, clock,
                 tick, cvars>>

\* updateDocumentContent after its await
ContentWrite(r) ==
  /\ reqs[r].pc = "contentRead"
  /\ documents' = WithContent(documents, Val(reqs[r].document).id, reqs[r].read,
                              toBase64(Val(reqs[r].file).buffer))
  /\ reqs' = [reqs EXCEPT ![r] = [@ EXCEPT !.pc = "analyze", !.read = Null]]
  /\ UNCHANGED <<analyses, currentDocumentId, currentAnalysisId, clock, tick, cvars>>

\* storage.createAnalysis as analyzeDocument calls it.  A call of the storage
\* collaborator that throws leaves the store as it was.
CreateAnalysis(r, insertAnalysis, pc) ==
  LET id == currentAnalysisId
      analysis == NewAnalysis(insertAnalysis, id, clock)
  IN  /\ currentAnalysisId' = NextAnalysisId(id)
      /\ analyses' = MapSet(analyses, id, analysis)
      /\ reqs' = [reqs EXCEPT ![r] =
                    IF pc = "done"
                      THEN [Respond(@, 201, Some([document |-> Val(@.document),
                                                  analysis |-> analysis]))
                              EXCEPT !.created = @ + 1, !.ret = Some(analysis)]
                      ELSE [@ EXCEPT !.pc = pc, !.created = @ + 1]]

\* analyzeDocument rejects: the route's outer catch answers 500
Propagate(r) ==
  /\ reqs' = [reqs EXCEPT ![r] = [Respond(@, 500, Null) EXCEPT !.raised = TRUE]]
  /\ UNCHANGED <<documents, analyses, currentDocumentId, currentAnalysisId, clock,
                 tick, cvars>>

\* analyzeDocument step 1: the placeholder
PlaceholderCreate(r) ==
  /\ reqs[r].pc = "analyze"
  /\ CreateAnalysis(r, initialAnalysis(Val(reqs[r].document).id), "placeholder")
  /\ UNCHANGED <<documents, currentDocumentId, clock, tick, cvars>>

\* the placeholder's createAnalysis throws, outside the try block
PlaceholderThrow(r) ==
  /\ reqs[r].pc = "analyze"
  /\ Propagate(r)

\* steps 2 and 3 of analyzeDocument: synthesis, classification, assembly
analysisResultsOf(fileName, documentType) ==
  assembleReport(simulateLegalAnalysis(
                   extractTextFromDocument(fileName, documentType), documentType))

\* analysisResultsOf of the documents the upload route can create, computed once
KnownResults ==
  [k \in {<<f.originalname, Some(inferDocumentType(f.originalname))>> : f \in Files}
     |-> analysisResultsOf(k[1], k[2])]

\* steps 2 and 3, then updateDocumentStatus up to its await
Analyse(r) ==
  /\ reqs[r].pc = "placeholder"
  /\ LET document == Val(reqs[r].document)
         k == <<document.fileName, document.documentType>>
         analysisResults ==
           IF k \in DOMAIN KnownResults
             THEN KnownResults[k]
             ELSE analysisResultsOf(document.fileName, document.documentType)
     IN  reqs' = [reqs EXCEPT ![r] =
                    [@ EXCEPT !.pc = "statusRead",
                              !.results = Some(analysisResults),
                              !.read = getDocument(documents, document.id)]]
  /\ UNCHANGED <<documents, analyses, currentDocumentId, currentAnalysisId, clock,
                 tick, cvars>>

\* the catch block up to its first await: updateDocumentStatus(id, "error")
\* reads the document, or throws in its turn and analyzeDocument rejects
CatchBlock(r) ==
  \/ /\ reqs' = [reqs EXCEPT ![r] =
                    [@ EXCEPT !.pc = "errorRead", !.caught = TRUE,
                              !.read = getDocument(documents,
                                                   Val(reqs[r].document).id)]]
     /\ UNCHANGED <<documents, analyses, currentDocumentId, currentAnalysisId,
                    clock, tick, cvars>>
  \/ /\ reqs' = [reqs EXCEPT ![r] =
                    [Respond(@, 500, Null) EXCEPT !.caught = TRUE, !.raised = TRUE]]
     /\ UNCHANGED <<documents, analyses, currentDocumentId, currentAnalysisId,
                    clock, tick, cvars>>

\* step 4 throws: the call of updateDocumentStatus rejects
StatusThrow(r) ==
  /\ reqs[r].pc = "placeholder"
  /\ CatchBlock(r)

\* updateDocumentStatus after its await
StatusWrite(r) ==
  /\ reqs[r].pc = "statusRead"
  /\ LET status == StatusOf(Val(reqs[r].results).isValid)
     IN  /\ documents' = WithStatus(documents, Val(reqs[r].document).id,
                                    reqs[r].read, status)
         /\ reqs' = [reqs EXCEPT ![r] =
                       [@ EXCEPT !.pc = "statusSet", !.read = Null,
                                 !.wrote = IF IsNull(reqs[r].read)
                                             THEN @ ELSE Some(status)]]
  /\ UNCHANGED <<analyses, currentDocumentId, currentAnalysisId, clock, tick, cvars>>

\* step 5: the final record, returned to the route, which answers 201
FinalCreate(r) ==
  /\ reqs[r].pc = "statusSet"
  /\ CreateAnalysis(r, updatedAnalysis(Val(reqs[r].document).id,
                                       Val(reqs[r].results)), "done")
  /\ UNCHANGED <<documents, currentDocumentId, clock, tick, cvars>>

\* step 5 throws: the final createAnalysis rejects
FinalThrow(r) ==
  /\ reqs[r].pc = "statusSet"
  /\ CatchBlock(r)

\* the catch block's updateDocumentStatus after its await
ErrorStatusWrite(r) ==
  /\ reqs[r].pc = "errorRead"
  /\ documents' = WithStatus(documents, Val(reqs[r].document).id,
                             reqs[r].read, "error")
  /\ reqs' = [reqs EXCEPT ![r] =
                [@ EXCEPT !.pc = "errorSet", !.read = Null,
                          !.wrote = IF IsNull(reqs[r].read)
                                      THEN @ ELSE Some("error")]]
  /\ UNCHANGED <<analyses, currentDocumentId, currentAnalysisId, clock, tick, cvars>>

\* the catch block's createAnalysis, returned to the route, which answers 201
ErrorCreate(r) ==
  /\ reqs[r].pc = "errorSet"
  /\ CreateAnalysis(r, errorAnalysis(Val(reqs[r].document).id), "done")
  /\ UNCHANGED <<documents, currentDocumentId, clock, tick, cvars>>

\* the catch block's createAnalysis throws
ErrorCreateThrow(r) ==
  /\ reqs[r].pc = "errorSet"
  /\ Propagate(r)

(***************************************************************************)
(* GET /api/documents                                                      *)
(***************************************************************************)
ListBegin(r) ==
  /\ MayArrive(r)
  /\ \E session \in Sessions :
       LET req == [reqs[r] EXCEPT !.kind = "list", !.session = session]
       IN  reqs' = [reqs EXCEPT ![r] =
                      IF IsNull(session) THEN Respond(req, 401, Null)
                      ELSE [req EXCEPT
                              !.pc = "listed",
                              !.read = Some(getDocumentsByUserId(documents,
                                                                 Val(session)))]]
  /\ UNCHANGED <<documents, analyses, currentDocumentId, currentAnalysisId, clock,
                 tick, cvars>>

\* the map over the documents: every getAnalysisByDocumentId reads now
ListFinish(r) ==
  /\ reqs[r].pc = "listed"
  /\ LET docs == Val(reqs[r].read)
         documentsWithAnalysis ==
           [i \in 1..Len(docs) |->
              [doc |-> docs[i],
               analysis |-> getAnalysisByDocumentId(analyses, docs[i].id)]]
     IN  reqs' = [reqs EXCEPT ![r] =
                    [Respond(@, 200, Some(documentsWithAnalysis))
                       EXCEPT !.read = Null, !.seen = FinishedRuns]]
  /\ UNCHANGED <<documents, analyses, currentDocumentId, currentAnalysisId, clock,
                 tick, cvars>>

(***************************************************************************)
(* GET /api/documents/:id                                                  *)
(***************************************************************************)
GetBegin(r) ==
  /\ MayArrive(r)
  /\ \E session \in Sessions, id \in 1..currentDocumentId :
       LET req == [reqs[r] EXCEPT !.kind = "get", !.session = session,
                                  !.param = id]
       IN  reqs' = [reqs EXCEPT ![r] =
                      IF IsNull(session) THEN Respond(req, 401, Null)
                      ELSE [req EXCEPT !.pc = "got",
                                       !.read = getDocument(documents, id)]]
  /\ UNCHANGED <<documents, analyses, currentDocumentId, currentAnalysisId, clock,
                 tick, cvars>>

GetFinish(r) ==
  /\ reqs[r].pc = "got"
  /\ LET document == reqs[r].read
     IN  reqs' = [reqs EXCEPT ![r] =
           IF IsNull(document) THEN [Respond(@, 404, Null) EXCEPT !.read = Null]
           ELSE IF Val(document).userId # Val(@.session)
             THEN [Respond(@, 403, Null) EXCEPT !.read = Null]
           ELSE [Respond(@, 200,
                         Some(<<[doc |-> Val(document),
                                 analysis |-> getAnalysisByDocumentId(
                                                analyses, Val(document).id)]>>))
                   EXCEPT !.read = Null, !.seen = FinishedRuns]]
  /\ UNCHANGED <<documents, analyses, currentDocumentId, currentAnalysisId, clock,
                 tick, cvars>>

(***************************************************************************)
(* The classifier on its own: inputs drawn from DeclaredTypes and Texts.   *)
(***************************************************************************)
DeclaredTypes ==
  {Null, Some(<<>>), Some(Unknown), Some(Agreement), Some(Deed), Some(Invoice),
   Some(BondPaper), Some(SaleDeed), Some(PropertyDocument),
   Some(<<"L","e","a","s","e">>), Some(<<"B","O","N","D">>),
   Some(<<"S","t","a","m","p"," ","P","a","p","e","r">>)}

Texts ==
  {<<>>,
   <<"a","b","c">>,
   <<"T","h","i","s"," ","p","r","o","p","e","r","t","y"," ","t","i","t","l","e"," ","t","r","a","n","s","f","e","r",".",".",".">>,
   <<"s","a","l","e"," ","d","e","e","d">>,
   <<"a"," ","b","o","n","d"," ","f","o","r"," ","t","h","e"," ","h","o","u","s","e">>,
   <<"O","n"," ","S","t","a","m","p"," ","P","a","p","e","r">>,
   <<"D","e","e","d"," "," ","o","f","\n","S","a","l","e">>,
   <<"d","e","e","d","o","f","s","a","l","e">>,
   <<"s","a","l","e","-","d","e","e","d">>,
   <<"S","a","l","e"," ","A","g","r","e","e","m","e","n","t">>,
   <<"S","a","m","p","l","e"," ","t","e","x","t"," ","f","o","r"," ","d","o","c","u","m","e","n","t"," ","l","e","a","s","e",".","p","d","f"," ","o","f"," ","t","y","p","e"," ","n","u","l","l",".">>,
   <<"r","e","a","l"," ","e","s","t","a","t","e">>,
   <<"F","L","A","T">>}
  \cup {extractTextFromDocument(f.originalname, Some(inferDocumentType(f.originalname)))
          : f \in Files}

vars == <<documents, analyses, currentDocumentId, currentAnalysisId, clock, tick,
          reqs, cType, cText, cResult>>

CInit ==
  /\ SInit
  /\ cType \in DeclaredTypes
  /\ cText \in Texts
  /\ cResult = Null

\* simulateLegalAnalysis applied to the drawn input
Classify ==
  /\ IsNull(cResult)
  /\ cResult' = Some(simulateLegalAnalysis(cText, cType))
  /\ UNCHANGED <<cType, cText>>
  /\ UNCHANGED svars

\* the assembly steps applied to the classification
Assemble ==
  /\ ~IsNull(cResult)
  /\ "complianceDetails" \notin DOMAIN Val(cResult)
  /\ cResult' = Some(assembleReport(Val(cResult)))
  /\ UNCHANGED <<cType, cText>>
  /\ UNCHANGED svars

CNext == Classify \/ Assemble

SpecClassify == CInit /\ [][CNext]_vars

(***************************************************************************)
(* The server: requests interleave at their await points.                  *)
(***************************************************************************)
Init ==
  /\ SInit
  /\ cType = Null
  /\ cText = <<>>
  /\ cResult = Null

Next ==
  \E r \in Requests :
    \/ UploadBegin(r)
    \/ ContentRead(r)
    \/ ContentWrite(r)
    \/ PlaceholderCreate(r)
    \/ PlaceholderThrow(r)
    \/ Analyse(r)
    \/ StatusThrow(r)
    \/ StatusWrite(r)
    \/ FinalCreate(r)
    \/ FinalThrow(r)
    \/ ErrorStatusWrite(r)
    \/ ErrorCreate(r)
    \/ ErrorCreateThrow(r)
    \/ ListBegin(r)
    \/ ListFinish(r)
    \/ GetBegin(r)
    \/ GetFinish(r)

Spec == Init /\ [][Next]_vars

(***************************************************************************)
(* Properties.                                                             *)
(***************************************************************************)
\* the upload requests that have created their document
WithDocument == {r \in Requests : ~IsNull(reqs[r].document)}

DocOf(r) == Val(reqs[r].document).id

\* the document of request r as the store holds it now
StoredDoc(r) == getDocument(documents, DocOf(r))

\* analyzeDocument has returned a report to the route
Returned(r) == reqs[r].pc = "done" /\ ~IsNull(reqs[r].ret)

\* analyzeDocument has rejected
Raised(r) == reqs[r].pc = "done" /\ reqs[r].raised

\* the analysis records of a document, in insertion order
AnalysesOf(documentId) ==
  SelectSeq(MapValues(analyses), LAMBDA a : a.documentId = documentId)

IsPlaceholder(a) ==
  /\ IsNull(a.isValid)
  /\ a.complianceStatus = "processing"
  /\ a.issuesCount = 0
  /\ a.warnings = <<>>
  /\ a.recommendations = <<>>
  /\ a.analysisData = JSONstringify(EmptyObject)

IsErrorReport(a) ==
  /\ a.isValid = Some(FALSE)
  /\ a.complianceStatus = "error"
  /\ a.issuesCount = 1
  /\ Len(a.warnings) = 1
  /\ Len(a.recommendations) = 1
  /\ a.analysisData = JSONstringify([error |-> "Analysis failed"])

IsSuccessReport(a) ==
  /\ a.isValid \in {Some(TRUE), Some(FALSE)}
  /\ a.complianceStatus \in {"compliant", "non-compliant"}

\* C1: analyzeDocument never propagates an exception: whatever createAnalysis
\* and updateDocumentStatus do, every run that has ended has returned a
\* report that is success-shaped or error-shaped.
C1_NeverPropagates ==
  \A r \in WithDocument :
    reqs[r].pc = "done" =>
      /\ ~reqs[r].raised
      /\ ~IsNull(reqs[r].ret)
      /\ IsSuccessReport(Val(reqs[r].ret)) \/ IsErrorReport(Val(reqs[r].ret))

\* C2: a run in which one of steps 2 to 5 threw ends with the stored status
\* "error", the error report persisted, and that report returned, not raised.
C2_ErrorPathCompletes ==
  \A r \in WithDocument :
    (reqs[r].pc = "done" /\ reqs[r].caught) =>
      /\ ~reqs[r].raised
      /\ ~IsNull(reqs[r].ret)
      /\ IsErrorReport(Val(reqs[r].ret))
      /\ \E i \in 1..Len(analyses) : analyses[i][2] = Val(reqs[r].ret)
      /\ ~IsNull(StoredDoc(r))
      /\ Val(StoredDoc(r)).status = "error"

\* C3: no answer of GET /api/documents or GET /api/documents/:id carries a
\* "processing" analysis for a document whose run had finished when the
\* handler called getAnalysisByDocumentId.
C3_PlaceholderNeverRead ==
  \A r \in Requests :
    (reqs[r].kind \in {"list", "get"} /\ reqs[r].status = 200) =>
      \A i \in 1..Len(Val(reqs[r].body)) :
        LET entry == Val(reqs[r].body)[i]
        IN  (entry.doc.id \in reqs[r].seen /\ ~IsNull(entry.analysis)) =>
              Val(entry.analysis).complianceStatus # "processing"

\* every run that has returned left exactly two records for its document:
\* the placeholder, then the report it returned
TwoRecordsPerRun ==
  \A r \in WithDocument :
    Returned(r) =>
      LET recs == AnalysesOf(DocOf(r))
      IN  /\ Len(recs) = 2
          /\ IsPlaceholder(recs[1])
          /\ recs[2] = Val(reqs[r].ret)
          /\ ~IsPlaceholder(recs[2])

\* every record is stored under its own id, no id twice, all below the counter
FreshAnalysisIds ==
  /\ \A i \in 1..Len(analyses) :
       /\ analyses[i][1] = analyses[i][2].id
       /\ analyses[i][1] < currentAnalysisId
  /\ \A i, j \in 1..Len(analyses) : i # j => analyses[i][1] # analyses[j][1]

\* a step leaves every stored analysis record as it was
AnalysesOnlyAppended ==
  /\ Len(analyses') >= Len(analyses)
  /\ \A i \in 1..Len(analyses) : analyses'[i] = analyses[i]

\* C4: every run that returns adds exactly two analysis records for its
\* document, the placeholder first and the final record second; every
\* createAnalysis inserts under a fresh id; no step changes a stored record.
C4_TwoIndependentRecords ==
  /\ [](TwoRecordsPerRun /\ FreshAnalysisIds)
  /\ [][AnalysesOnlyAppended]_vars

C4_Witness ==
  \E r, q \in WithDocument :
    /\ r # q
    /\ Returned(r)
    /\ Returned(q)
    /\ IsErrorReport(Val(reqs[q].ret))
    /\ IsSuccessReport(Val(reqs[r].ret))

\* the stored status of a run that returned a non-error report
StatusMatchesReport ==
  \A r \in WithDocument :
    (Returned(r) /\ Val(reqs[r].ret).complianceStatus # "error"
       /\ ~IsNull(StoredDoc(r))) =>
      Val(StoredDoc(r)).status =
        (IF Val(reqs[r].ret).isValid = Some(TRUE) THEN "valid" ELSE "invalid")

\* a final report is in the store only after the status was updated
StatusBeforeReport ==
  \A i \in 1..Len(analyses) :
    LET a == analyses[i][2]
        d == getDocument(documents, a.documentId)
    IN  (a.complianceStatus \in {"compliant", "non-compliant"} /\ ~IsNull(d)) =>
          Val(d).status = (IF a.isValid = Some(TRUE) THEN "valid" ELSE "invalid")

\* a document is created "pending" and only a status write of the
\* analyzeDocument run of its own request changes its status
StatusOnlyByAnalyzer ==
  \A i \in 1..Len(documents') :
    IF i <= Len(documents)
      THEN documents'[i][2].status # documents[i][2].status =>
             \E r \in WithDocument :
               /\ DocOf(r) = documents[i][1]
               /\ reqs[r].pc \in {"statusRead", "errorRead"}
               /\ reqs'[r].pc \in {"statusSet", "errorSet"}
      ELSE documents'[i][2].status = "pending"

\* C5: when analyzeDocument returns a non-error report for a stored document,
\* the stored status is "valid" or "invalid" as the report's isValid says; the
\* status is written before the final report is stored; nothing but
\* analyzeDocument changes a status after the creation as "pending".
C5_StatusFollowsResult ==
  /\ [](StatusMatchesReport /\ StatusBeforeReport)
  /\ [][StatusOnlyByAnalyzer]_vars

C5_Witness ==
  \E r \in WithDocument :
    /\ Returned(r)
    /\ Val(reqs[r].ret).isValid = Some(FALSE)
    /\ Val(reqs[r].ret).complianceStatus = "non-compliant"
    /\ Val(StoredDoc(r)).status = "invalid"

\* the labels of the declared list
SevenLabels == {documentTypes[i] : i \in 1..Len(documentTypes)}

\* C6: for every declared type and every text the resolved label is one of
\* Agreement, Deed, Invoice, Bond Paper, Sale Deed, Property Document, Unknown.
C6_LabelInSeven ==
  ~IsNull(cResult) => Val(cResult).documentType \in SevenLabels

\* C7: isValid holds exactly when complianceStatus is "compliant" and exactly
\* when the label is not "Unknown"; otherwise the status is "non-compliant".
C7_ValidIffCompliantIffKnown ==
  ~IsNull(cResult) =>
    LET result == Val(cResult)
    IN  /\ result.isValid <=> result.complianceStatus = "compliant"
        /\ result.isValid <=> result.documentType # Unknown
        /\ ~result.isValid => result.complianceStatus = "non-compliant"

C7_Witness ==
  /\ ~IsNull(cResult)
  /\ cType = Some(<<"L","e","a","s","e">>)
  /\ Val(cResult).documentType = <<"L","e","a","s","e">>
  /\ Val(cResult).isValid

\* the three rules on the drawn input
InputBond == BondRule(toLowerCase(cText), toLowerCase(InitialType(cType)))
InputSale == SaleDeedRule(toLowerCase(cText), toLowerCase(InitialType(cType)))
InputProperty == PropertyRule(toLowerCase(cText), toLowerCase(InitialType(cType)))

\* C8: last match wins: when the property rule matches, the label is
\* "Property Document" whatever else matches; when the sale-deed rule matches
\* and the property rule does not, the label is "Sale Deed" even if the bond
\* rule matches.  The three examples of the claim are spelled out.
C8_LastMatchWins ==
  ~IsNull(cResult) =>
    LET label == Val(cResult).documentType
    IN  /\ InputProperty => label = PropertyDocument
        /\ (InputSale /\ ~InputProperty) => label = SaleDeed
        /\ cText = <<"a"," ","b","o","n","d"," ","f","o","r"," ","t","h","e"," ","h","o","u","s","e">> => label = PropertyDocument
        /\ (cType = Some(SaleDeed) /\ cText = <<"T","h","i","s"," ","p","r","o","p","e","r","t","y"," ","t","i","t","l","e"," ","t","r","a","n","s","f","e","r",".",".",".">>)
             => label = PropertyDocument
        /\ (cType = Some(BondPaper) /\ cText = <<"s","a","l","e"," ","d","e","e","d">>) => label = SaleDeed

C8_Witness ==
  /\ ~IsNull(cResult)
  /\ cType = Some(BondPaper)
  /\ cText = <<"s","a","l","e"," ","d","e","e","d">>
  /\ InputBond /\ InputSale /\ ~InputProperty
  /\ Val(cResult).documentType = SaleDeed

RECURSIVE CreatedUpTo(_)
\* the createAnalysis calls that have returned, over requests 1..n
CreatedUpTo(n) == IF n = 0 THEN 0 ELSE reqs[n].created + CreatedUpTo(n - 1)

AllSettled == \A r \in Requests : reqs[r].pc \in {"idle", "done"}

\* C9: whatever the interleaving of concurrent upload-and-analyse requests,
\* every upload has its own document id, every createAnalysis its own analysis
\* id, no insert is lost, and once all runs have ended every document holds
\* the content and the status its own request wrote.
C9_NoLostWrite ==
  /\ \A r, q \in WithDocument : r # q => DocOf(r) # DocOf(q)
  /\ Len(documents) = Cardinality(WithDocument)
  /\ \A i, j \in 1..Len(analyses) : i # j => analyses[i][1] # analyses[j][1]
  /\ Len(analyses) = CreatedUpTo(MaxReq)
  /\ \A r \in WithDocument : Len(AnalysesOf(DocOf(r))) = reqs[r].created
  /\ \A r, q \in WithDocument :
       (r # q /\ ~IsNull(reqs[r].ret) /\ ~IsNull(reqs[q].ret)) =>
         Val(reqs[r].ret).id # Val(reqs[q].ret).id
  /\ AllSettled =>
       \A r \in WithDocument :
         StoredDoc(r) =
           Some([Val(reqs[r].document) EXCEPT
                   !.content = toBase64(Val(reqs[r].file).buffer),
                   !.status = IF IsNull(reqs[r].wrote)
                                THEN "pending" ELSE Val(reqs[r].wrote)])

\* two runs have ended, the later upload's report stored before the earlier's
C9_Witness ==
  /\ AllSettled
  /\ \E r, q \in WithDocument :
       /\ Returned(r)
       /\ Returned(q)
       /\ DocOf(r) < DocOf(q)
       /\ Val(reqs[q].ret).id < Val(reqs[r].ret).id
       /\ Val(StoredDoc(r)).status # Val(StoredDoc(q)).status

\* C10: once an analyzeDocument run has ended, by returning or through its
\* catch block, the stored status of its document is "valid", "invalid" or
\* "error", never still "pending".
C10_EndedNeverPending ==
  \A r \in WithDocument :
    (Returned(r) \/ Raised(r)) =>
      /\ ~IsNull(StoredDoc(r))
      /\ Val(StoredDoc(r)).status \in {"valid", "invalid", "error"}

\* The termination half of C10: with every started run scheduled again after
\* each await (weak fairness on its steps), a run that has been called ends.
RunStep(r) ==
  \/ PlaceholderCreate(r) \/ PlaceholderThrow(r)
  \/ Analyse(r) \/ StatusThrow(r) \/ StatusWrite(r)
  \/ FinalCreate(r) \/ FinalThrow(r)
  \/ ErrorStatusWrite(r) \/ ErrorCreate(r) \/ ErrorCreateThrow(r)

FairSpec == Spec /\ \A r \in Requests : WF_vars(RunStep(r))

RunTerminates ==
  \A r \in Requests : (reqs[r].pc = "analyze") ~> (reqs[r].pc = "done")

\* the fields of the two complianceDetails blocks
ValidFields == DOMAIN ValidDetails
InvalidFields == DOMAIN InvalidDetails

\* JSON.parse(a.analysisData)
DataOf(a) == a.analysisData.json

HasErrorMarker(a) == DataOf(a) = [error |-> "Analysis failed"]

\* the analysis data carries a complianceDetails object of the valid shape only
CarriesValidShape(a) ==
  /\ "complianceDetails" \in DOMAIN DataOf(a)
  /\ ValidFields \subseteq DOMAIN DataOf(a).complianceDetails
  /\ InvalidFields \cap DOMAIN DataOf(a).complianceDetails = {}

\* the analysis data carries a complianceDetails object of the invalid shape only
CarriesInvalidShape(a) ==
  /\ "complianceDetails" \in DOMAIN DataOf(a)
  /\ InvalidFields \subseteq DOMAIN DataOf(a).complianceDetails
  /\ ValidFields \cap DOMAIN DataOf(a).complianceDetails = {}

\* the shape follows isValid: valid when true, invalid when false
OneShapeByValidity(a) ==
  /\ a.isValid \in {Some(TRUE), Some(FALSE)}
  /\ Val(a.isValid) => CarriesValidShape(a)
  /\ ~Val(a.isValid) => CarriesInvalidShape(a)

StoredAnalyses == {analyses[i][2] : i \in 1..Len(analyses)}

\* C11 as stated: every analysis record analyzeDocument has persisted, other
\* than an error-path record (analysis data = the error marker), carries
\* exactly one complianceDetails shape in its analysis data, the valid one
\* when isValid is true and the invalid one when it is false.
C11_OneShapePerReport ==
  \A a \in StoredAnalyses : HasErrorMarker(a) \/ OneShapeByValidity(a)

\* C11 amended: the same of every persisted record other than the placeholder
\* (isValid null, analysis data the empty object, no complianceDetails at all)
\* and the error-path record.
C11_OneShapePerFinalReport ==
  \A a \in StoredAnalyses :
    \/ IsPlaceholder(a) /\ "complianceDetails" \notin DOMAIN DataOf(a)
    \/ HasErrorMarker(a)
    \/ OneShapeByValidity(a)

\* a valid and an invalid final report are both in the store
C11_Witness ==
  /\ \E a \in StoredAnalyses :
       a.isValid = Some(TRUE) /\ CarriesValidShape(a) /\ ~CarriesInvalidShape(a)
  /\ \E a \in StoredAnalyses :
       /\ a.isValid = Some(FALSE)
       /\ ~HasErrorMarker(a)
       /\ CarriesInvalidShape(a)
       /\ ~CarriesValidShape(a)

\* the bond condition as the claim words it: the text or the declared type
\* contains "bond" or "stamp paper", whatever the case
ClaimedBond ==
  LET textLower == toLowerCase(cText)
      docTypeLower == toLowerCase(InitialType(cType))
  IN  \/ includes(textLower, <<"b","o","n","d">>)
      \/ includes(textLower, <<"s","t","a","m","p"," ","p","a","p","e","r">>)
      \/ includes(docTypeLower, <<"b","o","n","d">>)
      \/ includes(docTypeLower, <<"s","t","a","m","p"," ","p","a","p","e","r">>)

\* C12: rule 1 of the classifier: when the text or the declared type contains
\* "bond" or "stamp paper" (case-insensitively) and neither the sale-deed rule
\* nor the property rule matches, the resolved label is "Bond Paper".
C12_BondRuleLabel ==
  ~IsNull(cResult) =>
    ((ClaimedBond /\ ~InputSale /\ ~InputProperty) =>
       Val(cResult).documentType = BondPaper)

\* C13: the issues list of the classification is non-empty, and the
\* issuesCount of the report built from it greater than 0, exactly when the
\* resolved label is "Unknown", that is exactly when isValid is false; the
\* declared type null with the text "Sample text for document lease.pdf of
\* type null." gives Unknown, isValid false and the two fixed issues.
C13_IssuesIffUnknown ==
  ~IsNull(cResult) =>
    LET result == Val(cResult)
    IN  /\ result.issues # <<>> <=> result.documentType = Unknown
        /\ result.issues # <<>> <=> ~result.isValid
        /\ updatedAnalysis(1, result).issuesCount > 0 <=> result.documentType = Unknown
        /\ (IsNull(cType) /\ cText = <<"S","a","m","p","l","e"," ","t","e","x","t"," ","f","o","r"," ","d","o","c","u","m","e","n","t"," ","l","e","a","s","e",".","p","d","f"," ","o","f"," ","t","y","p","e"," ","n","u","l","l",".">>) =>
             /\ result.documentType = Unknown
             /\ ~result.isValid
             /\ result.issues = <<"Document type cannot be determined",
                                  "Missing standard legal clauses">>

\* the declared type, as simulateLegalAnalysis lower-cases it, contains "deed"
DeclaredDeed == includes(toLowerCase(InitialType(cType)), <<"d","e","e","d">>)

\* the issues, warnings and recommendations of a classification
ContentOf(result) ==
  [issues |-> result.issues,
   warnings |-> result.warnings,
   recommendations |-> result.recommendations]

\* C14: the classifier never resolves to the label "Deed": every declared
\* type containing "deed" (whatever the case) matches the sale-deed rule and
\* resolves to "Sale Deed" or "Property Document", the type "Deed" the upload
\* route declares included, and the content of the "Deed" branch is never
\* returned.
C14_NeverDeed ==
  ~IsNull(cResult) =>
    LET result == Val(cResult)
    IN  /\ result.documentType # Deed
        /\ DeclaredDeed => InputSale
        /\ DeclaredDeed => result.documentType \in {SaleDeed, PropertyDocument}
        /\ (\E f \in Files : cType = Some(inferDocumentType(f.originalname))
                               /\ inferDocumentType(f.originalname) = Deed)
             => result.documentType \in {SaleDeed, PropertyDocument}
        /\ ContentOf(result) # LabelContent(Deed)

\* declared "Deed", a text with no keyword of any rule: resolved to "Sale Deed"
C14_Witness ==
  /\ ~IsNull(cResult)
  /\ cType = Some(Deed)
  /\ cText = <<"a","b","c">>
  /\ ~InputBond /\ ~InputProperty
  /\ Val(cResult).documentType = SaleDeed
  /\ ContentOf(Val(cResult)) = LabelContent(SaleDeed)

=============================================================================
